---- MODULE Spec2Model ----
(***************************************************************************)
(* A model of the research-paper question answering pipeline:              *)
(*   - DocumentProcessor (src/src/process_documents.py): construction and  *)
(*     the chunk_text loop, one action per loop iteration;                 *)
(*   - RAGPipeline (src/src/rag_pipeline.py): retrieve_context,            *)
(*     build_prompt, generate_answer and the stages of ask;                *)
(*   - the interactive loop of main (src/main.py).                         *)
(* Strings are sequences of one-character strings, so that slicing,        *)
(* trimming, lower-casing and the sentence-ending search are computed the  *)
(* way Python computes them.                                               *)
(***************************************************************************)
EXTENDS Integers, Sequences, FiniteSets, TLC

VARIABLES
    \* DocumentProcessor and one call of chunk_text
    cpc,            \* "new", "ready", "loop", "returned", "diverged"
    chunk_size,     \* self.chunk_size
    chunk_overlap,  \* self.chunk_overlap
    text,           \* the text argument of chunk_text
    metadata,       \* the metadata argument of chunk_text
    start,          \* the cursor of the while loop
    chunks,         \* the list being built
    seen,           \* cursor values at which an iteration has already run
    \* RAGPipeline and the interactive loop of main
    pc,             \* "Idle", "Retrieving", "PromptBuilding", "Generating",
                    \* "Exited", "Crashed"
    use_openai,     \* self.use_openai
    line,           \* the line input() returned last
    query,          \* main: query = input(...).strip()
    results,        \* retrieve_context: what vector_store.search returned
    context_chunks, \* ask: context_chunks
    prompt,         \* ask: prompt
    answer,         \* ask: answer
    error           \* the exception that left main, "" while there is none

chunkVars == <<cpc, chunk_size, chunk_overlap, text, metadata, start, chunks, seen>>

queryVars == <<pc, use_openai, line, query, results, context_chunks, prompt, answer, error>>

vars == <<chunkVars, queryVars>>

-----------------------------------------------------------------------------
(* Bounds of the model *)

\* longest text of the exhaustive text family
MaxLen == 4
\* largest chunk_size / chunk_overlap of the exhaustive configuration family
MaxChunk == 4
\* the long-document family: sentences of SentenceLen characters, each ending ". "
SentenceLen == 175
MaxSentences == 7
\* the configuration the long documents are chunked with
LongChunk == 245
\* how far below zero the model follows the cursor
MaxBackward == 6
\* most entries in one list of an index result
MaxHits == 2

\* the radius of the sentence-ending search window (process_documents.py:68-69)
SearchRadius == 100

-----------------------------------------------------------------------------
(* Python built-ins *)

Max2(a, b) == IF a >= b THEN a ELSE b

Min2(a, b) == IF a <= b THEN a ELSE b

SetMax(S) == CHOOSE m \in S : \A x \in S : x <= m

SetMin(S) == CHOOSE m \in S : \A x \in S : m <= x

\* str.isspace() of one character (what \s matches and what strip() removes)
IsSpace(c) == c \in {" ", "\t", "\n", "\r"}

\* the character class [.!?]
IsTerminator(c) == c \in {".", "!", "?"}

\* a slice bound as Python normalises it: negative bounds count from the end,
\* and every bound is clamped to 0..n
PyIndex(i, n) == IF i < 0 THEN Max2(i + n, 0) ELSE Min2(i, n)

\* s[a:b]
Slice(s, a, b) ==
    LET lo == PyIndex(a, Len(s))
        hi == PyIndex(b, Len(s))
    IN  IF lo >= hi THEN <<>> ELSE SubSeq(s, lo + 1, hi)

\* s.strip()
Strip(s) ==
    LET keep == {i \in 1..Len(s) : ~IsSpace(s[i])}
    IN  IF keep = {} THEN <<>> ELSE SubSeq(s, SetMin(keep), SetMax(keep))

-----------------------------------------------------------------------------
(* DocumentProcessor.chunk_text *)

\* [m.end() for m in re.finditer(r'[.!?]\s', search_text)], as a set: a match
\* is two characters long and the two classes are disjoint, so matches never
\* overlap and every position that matches is found
SentenceEndings(search_text) ==
    {i + 1 : i \in {j \in 1..(Len(search_text) - 1) :
                      IsTerminator(search_text[j]) /\ IsSpace(search_text[j + 1])}}

\* the end of the chunk as a search that keeps the first sentence ending of the
\* window (sentence_endings[0]) would compute it
ChunkEndFirstMatch(t, s, size) ==
    LET end == s + size
    IN  IF end < Len(t)
        THEN LET search_start == Max2(s, end - SearchRadius)
                 search_text == Slice(t, search_start, end + SearchRadius)
                 sentence_endings == SentenceEndings(search_text)
             IN  IF sentence_endings # {}
                 THEN search_start + SetMin(sentence_endings)
                 ELSE end
        ELSE end

\* the end of the chunk that starts at s (lines 63-76)
ChunkEnd(t, s, size) ==
    LET end == s + size
    IN  IF end < Len(t)
        THEN LET search_start == Max2(s, end - SearchRadius)
                 search_text == Slice(t, search_start, end + SearchRadius)
                 sentence_endings == SentenceEndings(search_text)
             IN  IF sentence_endings # {}
                 THEN search_start + SetMax(sentence_endings)
                 ELSE end
        ELSE end

\* the chunks list after the iteration at cursor s with chunk end e (lines 78-91)
EmitChunk(cs, t, meta, s, e) ==
    LET chunk_text == Strip(Slice(t, s, e))
        chunk == [text |-> chunk_text, start_char |-> s, end_char |-> e]
    IN  IF chunk_text # <<>>
        THEN Append(cs, IF meta.given THEN meta.fields @@ chunk ELSE chunk)
        ELSE cs

\* the cursor after the iteration (line 94)
NextStart(e, overlap) == e - overlap

-----------------------------------------------------------------------------
(* Inputs of the chunker *)

Alphabet == {"x", ".", " "}

\* every text of at most MaxLen characters over the alphabet
SmallTexts == UNION {[1..n -> Alphabet] : n \in 0..MaxLen}

\* n sentences of SentenceLen characters: letters, then ". "
Sentences(n) ==
    [i \in 1..(n * SentenceLen) |->
        IF i % SentenceLen = SentenceLen - 1 THEN "."
        ELSE IF i % SentenceLen = 0 THEN " "
        ELSE "x"]

LongTexts == {Sentences(n) : n \in 1..MaxSentences}

\* constructor arguments: every pair of small values, valid or not, and one
\* configuration larger than the search window
ConfigValues == (0 - 1)..MaxChunk

Configs == (ConfigValues \X ConfigValues) \cup {<<LongChunk, 0>>}

\* the long documents are chunked with the long configuration only
TextsFor(size) == IF size > MaxChunk THEN SmallTexts \cup LongTexts ELSE SmallTexts

NoMetadata == [given |-> FALSE, fields |-> <<>>]

PaperMetadata == [given |-> TRUE, fields |-> [arxiv_id |-> "2401.00001", title |-> "T"]]

Metadatas == {NoMetadata, PaperMetadata}

\* chunk_size > 0 and 0 <= chunk_overlap < chunk_size
ValidConfig == chunk_size > 0 /\ 0 <= chunk_overlap /\ chunk_overlap < chunk_size

-----------------------------------------------------------------------------
(* DocumentProcessor: actions *)

\* DocumentProcessor(chunk_size, chunk_overlap): the arguments are stored as given
Construct(size, overlap) ==
    /\ cpc = "new"
    /\ chunk_size' = size
    /\ chunk_overlap' = overlap
    /\ cpc' = "ready"
    /\ UNCHANGED <<text, metadata, start, chunks, seen>>
    /\ UNCHANGED queryVars

\* chunk_text(t, meta) is entered: chunks = [], start = 0
ChunkTextCall(t, meta) ==
    /\ cpc = "ready"
    /\ text' = t
    /\ metadata' = meta
    /\ chunks' = <<>>
    /\ start' = 0
    /\ seen' = {}
    /\ cpc' = "loop"
    /\ UNCHANGED <<chunk_size, chunk_overlap>>
    /\ UNCHANGED queryVars

\* one iteration of the while loop. An iteration is a function of the cursor
\* alone (text and configuration are fixed during the call), so the model
\* follows the loop until it comes back to a cursor it has already been at.
ChunkIterate ==
    /\ cpc = "loop"
    /\ start < Len(text)
    /\ start \notin seen
    /\ start >= 0 - MaxBackward
    /\ LET end == ChunkEnd(text, start, chunk_size)
       IN  /\ chunks' = EmitChunk(chunks, text, metadata, start, end)
           /\ start' = NextStart(end, chunk_overlap)
    /\ seen' = seen \cup {start}
    /\ UNCHANGED <<cpc, chunk_size, chunk_overlap, text, metadata>>
    /\ UNCHANGED queryVars

\* the loop condition fails: return chunks
ChunkReturn ==
    /\ cpc = "loop"
    /\ start >= Len(text)
    /\ cpc' = "returned"
    /\ UNCHANGED <<chunk_size, chunk_overlap, text, metadata, start, chunks, seen>>
    /\ UNCHANGED queryVars

\* the loop is back at a cursor it has already been at: the iterations from
\* there on repeat for ever and chunk_text never returns
ChunkDiverge ==
    /\ cpc = "loop"
    /\ start < Len(text)
    /\ start \in seen
    /\ cpc' = "diverged"
    /\ UNCHANGED <<chunk_size, chunk_overlap, text, metadata, start, chunks, seen>>
    /\ UNCHANGED queryVars

ProcessorInit ==
    /\ cpc = "new"
    /\ chunk_size = 0
    /\ chunk_overlap = 0
    /\ text = <<>>
    /\ metadata = NoMetadata
    /\ start = 0
    /\ chunks = <<>>
    /\ seen = {}

ChunkNext ==
    \/ \E c \in Configs : Construct(c[1], c[2])
    \/ \E t \in TextsFor(chunk_size), meta \in Metadatas : ChunkTextCall(t, meta)
    \/ ChunkIterate
    \/ ChunkReturn
    \/ ChunkDiverge

-----------------------------------------------------------------------------
(* Inputs of the query pipeline *)

\* the texts of indexed chunks
DocTexts == {<<"a">>, <<"b", "c">>}

\* the metadata of indexed chunks (the fields build_prompt reads)
DocMetas == {[title |-> <<"T">>, arxiv_id |-> <<"1">>],
             [title |-> <<"U", "V">>, arxiv_id |-> <<"2">>]}

DocDistances == {1, 2}

\* every list of at most MaxHits values of S
ListsOf(S) == UNION {[1..n -> S] : n \in 0..MaxHits}

\* a field of an index result: [inner list], as collection.query returns it for
\* one query embedding, or missing (None or absent: subscripting it raises)
Missing == <<>>

FieldsOf(S) == {<<inner>> : inner \in ListsOf(S)} \cup {Missing}

\* what vector_store.search can hand to retrieve_context
IndexResults ==
    [documents : FieldsOf(DocTexts), metadatas : FieldsOf(DocMetas),
     distances : FieldsOf(DocDistances)]

NoResults == [documents |-> Missing, metadatas |-> Missing, distances |-> Missing]

\* the lines input() returns: blank lines, and exit commands and queries with
\* and without surrounding whitespace
Words == {<<"q">>, <<"Q">>, <<"q", "q">>,
          <<"q", "u", "i", "t">>, <<"Q", "u", "I", "T">>,
          <<"e", "x", "i", "t">>, <<"E", "X", "I", "T">>,
          <<"e", "x", "i", "t", " ", "w">>}

\* leading and trailing whitespace put around a word
Paddings == {<<<<>>, <<>>>>, <<<<" ">>, <<"\t", " ">>>>}

InputLines ==
    {<<>>, <<" ">>, <<"\t", " ">>} \cup {pad[1] \o w \o pad[2] : pad \in Paddings, w \in Words}

-----------------------------------------------------------------------------
(* main: the interactive loop *)

\* str.lower() of one character, for the letters of the model
LowerChar(c) ==
    CASE c = "Q" -> "q"
      [] c = "U" -> "u"
      [] c = "I" -> "i"
      [] c = "T" -> "t"
      [] c = "E" -> "e"
      [] c = "X" -> "x"
      [] c = "W" -> "w"
      [] OTHER -> c

\* s.lower()
Lower(s) == [i \in 1..Len(s) |-> LowerChar(s[i])]

\* ['quit', 'exit', 'q'] (main.py:45)
ExitCommands == {<<"q", "u", "i", "t">>, <<"e", "x", "i", "t">>, <<"q">>}

\* query.lower() in ['quit', 'exit', 'q']
IsExitCommand(q) == Lower(q) \in ExitCommands

-----------------------------------------------------------------------------
(* RAGPipeline.retrieve_context *)

\* results[key][0] raises: the field is missing
FieldRaises(field) == Len(field) = 0

\* the loop over range(len(results['documents'][0])) raises: a subscript of
\* metadatas[0] or distances[0] is out of range, or the field is missing
RetrieveRaises(r) ==
    IF FieldRaises(r.documents) THEN TRUE
    ELSE \E i \in 1..Len(r.documents[1]) :
            IF FieldRaises(r.metadatas) THEN TRUE
            ELSE IF i > Len(r.metadatas[1]) THEN TRUE
            ELSE IF FieldRaises(r.distances) THEN TRUE
            ELSE i > Len(r.distances[1])

\* the exception of the first subscript that fails: None[0] is a TypeError, a
\* subscript out of range an IndexError
RetrieveError(r) ==
    IF FieldRaises(r.documents) THEN "TypeError"
    ELSE IF FieldRaises(r.metadatas) THEN "TypeError"
    ELSE IF Len(r.metadatas[1]) = 0 THEN "IndexError"
    ELSE IF FieldRaises(r.distances) THEN "TypeError"
    ELSE "IndexError"

\* the list retrieve_context returns when nothing raises
RetrieveContext(r) ==
    [i \in 1..Len(r.documents[1]) |->
        [text |-> r.documents[1][i],
         metadata |-> r.metadatas[1][i],
         distance |-> r.distances[1][i]]]

-----------------------------------------------------------------------------
(* RAGPipeline.build_prompt *)

\* separator.join(parts)
RECURSIVE Join(_, _)
Join(separator, parts) ==
    IF Len(parts) = 0 THEN <<>>
    ELSE IF Len(parts) = 1 THEN parts[1]
    ELSE parts[1] \o separator \o Join(separator, Tail(parts))

\* the block of the i-th chunk (lines 51-55)
ContextPart(i, chunk) ==
    LET meta == chunk.metadata
    IN  <<"[Source ", ToString(i), ": ">> \o meta.title \o <<" (">> \o meta.arxiv_id
          \o <<")]\n">> \o chunk.text \o <<"\n">>

\* context_parts as a de-duplicating assembler would build it: a chunk equal to
\* an earlier one is left out
ContextPartsDedup(cs) ==
    LET first == {i \in 1..Len(cs) : \A j \in 1..(i - 1) : cs[j] # cs[i]}
        kept == [k \in 1..Cardinality(first) |->
                    CHOOSE i \in first : Cardinality({j \in first : j <= i}) = k]
    IN  [k \in 1..Len(kept) |-> ContextPart(k, cs[kept[k]])]

\* context_parts (lines 49-55)
ContextParts(cs) == [i \in 1..Len(cs) |-> ContextPart(i, cs[i])]

PromptHead ==
    "You are a helpful research assistant. Answer the question based on the provided context from research papers.\n\nContext from research papers:\n"

PromptQuestion == "\n\nQuestion: "

PromptInstructions ==
    "\n\nInstructions:\n- Answer based on the context provided above\n- If the context doesn't contain enough information, say so\n- Cite which source(s) you used (by source number)\n- Be precise and scientific in your answer\n\nAnswer:"

BuildPrompt(q, cs) ==
    LET context_str == Join(<<"\n---\n">>, ContextParts(cs))
    IN  <<PromptHead>> \o context_str \o <<PromptQuestion>> \o q \o <<PromptInstructions>>

-----------------------------------------------------------------------------
(* RAGPipeline.generate_answer *)

GenerateAnswer(openai, p) ==
    IF openai
    THEN <<"[OpenAI integration not configured]">>
    ELSE <<"[LLM response would go here - see prompt above]">>

-----------------------------------------------------------------------------
(* main and RAGPipeline.ask: actions *)

\* the locals of ask before they are assigned
AskLocalsUnset ==
    /\ results' = NoResults
    /\ context_chunks' = <<>>
    /\ prompt' = <<>>
    /\ answer' = <<>>

\* input() returns l and the trimmed line is an exit command: break
ReadExit(l) ==
    /\ pc = "Idle"
    /\ IsExitCommand(Strip(l))
    /\ line' = l
    /\ query' = Strip(l)
    /\ pc' = "Exited"
    /\ AskLocalsUnset
    /\ UNCHANGED <<use_openai, error>>
    /\ UNCHANGED chunkVars

\* input() returns l and the trimmed line is empty: continue
ReadBlank(l) ==
    /\ pc = "Idle"
    /\ ~IsExitCommand(Strip(l))
    /\ Strip(l) = <<>>
    /\ line' = l
    /\ query' = Strip(l)
    /\ pc' = "Idle"
    /\ AskLocalsUnset
    /\ UNCHANGED <<use_openai, error>>
    /\ UNCHANGED chunkVars

\* input() returns l, a query: rag.ask(query, n_results=3, verbose=True) is entered
ReadQuery(l) ==
    /\ pc = "Idle"
    /\ ~IsExitCommand(Strip(l))
    /\ Strip(l) # <<>>
    /\ line' = l
    /\ query' = Strip(l)
    /\ pc' = "Retrieving"
    /\ AskLocalsUnset
    /\ UNCHANGED <<use_openai, error>>
    /\ UNCHANGED chunkVars

\* ask, step 1: search returns r and retrieve_context formats it
AskRetrieve(r) ==
    /\ pc = "Retrieving"
    /\ ~RetrieveRaises(r)
    /\ results' = r
    /\ context_chunks' = RetrieveContext(r)
    /\ pc' = "PromptBuilding"
    /\ UNCHANGED <<use_openai, line, query, prompt, answer, error>>
    /\ UNCHANGED chunkVars

\* ask, step 1: search returns r and retrieve_context raises on it. Neither
\* ask nor main has a handler, so the exception ends the loop and the process
AskRetrieveRaises(r) ==
    /\ pc = "Retrieving"
    /\ RetrieveRaises(r)
    /\ results' = r
    /\ error' = RetrieveError(r)
    /\ pc' = "Crashed"
    /\ UNCHANGED <<use_openai, line, query, context_chunks, prompt, answer>>
    /\ UNCHANGED chunkVars

\* ask, step 1: vector_store.search itself raises (embedding model or index)
AskSearchRaises ==
    /\ pc = "Retrieving"
    /\ error' = "SearchError"
    /\ pc' = "Crashed"
    /\ UNCHANGED <<use_openai, line, query, results, context_chunks, prompt, answer>>
    /\ UNCHANGED chunkVars

\* ask, step 2
AskBuildPrompt ==
    /\ pc = "PromptBuilding"
    /\ prompt' = BuildPrompt(query, context_chunks)
    /\ pc' = "Generating"
    /\ UNCHANGED <<use_openai, line, query, results, context_chunks, answer, error>>
    /\ UNCHANGED chunkVars

\* ask, step 3, and the return to the loop
AskGenerate ==
    /\ pc = "Generating"
    /\ answer' = GenerateAnswer(use_openai, prompt)
    /\ pc' = "Idle"
    /\ UNCHANGED <<use_openai, line, query, results, context_chunks, prompt, error>>
    /\ UNCHANGED chunkVars

\* RAGPipeline(vector_store, use_openai) is constructed and the loop is entered
PipelineInit ==
    /\ pc = "Idle"
    /\ use_openai \in BOOLEAN
    /\ line = <<>>
    /\ query = <<>>
    /\ results = NoResults
    /\ context_chunks = <<>>
    /\ prompt = <<>>
    /\ answer = <<>>
    /\ error = ""

QueryNext ==
    \/ \E l \in InputLines : ReadExit(l)
    \/ \E l \in InputLines : ReadBlank(l)
    \/ \E l \in InputLines : ReadQuery(l)
    \/ \E r \in IndexResults : AskRetrieve(r)
    \/ \E r \in IndexResults : AskRetrieveRaises(r)
    \/ AskSearchRaises
    \/ AskBuildPrompt
    \/ AskGenerate

-----------------------------------------------------------------------------
(* Specifications *)

\* main builds the pipeline with use_openai=False (main.py:35)
ChunkInit == ProcessorInit /\ PipelineInit /\ use_openai = FALSE

\* the document processor: construction and one call of chunk_text
SpecChunk == ChunkInit /\ [][ChunkNext]_vars

QueryInit == ProcessorInit /\ PipelineInit

\* the interactive loop with the query pipeline
SpecQuery == QueryInit /\ [][QueryNext]_vars

-----------------------------------------------------------------------------
(* Properties of DocumentProcessor, checked under SpecChunk *)

\* ceil(a / b) for a >= 0, b > 0
CeilDiv(a, b) == (a + b - 1) \div b

\* C1: chunk_text terminates for every text and every valid configuration
\* (chunk_size > 0, 0 <= chunk_overlap < chunk_size): the loop never comes back
\* to a cursor it has already been at, from which it would repeat for ever.
ChunkTextTerminates == ValidConfig => cpc # "diverged"

\* C2: under a valid configuration every emitted chunk has
\* 0 <= start_char < end_char <= len(text).
ChunkOffsetsInRange ==
    ValidConfig =>
        \A i \in 1..Len(chunks) :
            /\ 0 <= chunks[i].start_char
            /\ chunks[i].start_char < chunks[i].end_char
            /\ chunks[i].end_char <= Len(text)

\* C3: under a valid configuration a non-empty text no longer than chunk_size
\* yields exactly one chunk, whose text is the trimmed input. (Stated for the
\* texts that are not all whitespace, whose trimmed input can be a chunk.)
SingleChunkCase ==
    (cpc = "returned" /\ ValidConfig /\ Strip(text) # <<>> /\ Len(text) <= chunk_size)
        => (Len(chunks) = 1 /\ chunks[1].text = Strip(text))

\* C4: under a valid configuration the ranges [start_char, end_char) of the
\* returned chunks cover [0, len(text)) with no gaps: every position of the
\* text lies in the range of some chunk.
ChunksCoverText ==
    (cpc = "returned" /\ ValidConfig) =>
        \A p \in 0..(Len(text) - 1) :
            \E i \in 1..Len(chunks) :
                chunks[i].start_char <= p /\ p < chunks[i].end_char

\* C5: under a valid configuration chunk_text returns at most
\* ceil(len(text) / (chunk_size - chunk_overlap)) + 1 chunks.
ChunkCountBound ==
    (cpc = "returned" /\ ValidConfig) =>
        Len(chunks) <= CeilDiv(Len(text), chunk_size - chunk_overlap) + 1

\* C6: a DocumentProcessor only ever exists with a valid configuration:
\* construction with chunk_size <= 0, chunk_overlap < 0 or
\* chunk_overlap >= chunk_size fails.
ConstructorRejectsInvalid == cpc # "new" => ValidConfig

\* the positions (counted from 0) of the sentence terminators that are followed
\* by whitespace, both characters lying in the window from
\* max(s, s + size - 100) to s + size + 100 of t
WindowMatches(t, s, size) ==
    {p \in 0..(Len(t) - 2) :
        /\ p >= Max2(s, s + size - SearchRadius)
        /\ p + 2 <= s + size + SearchRadius
        /\ IsTerminator(t[p + 1])
        /\ IsSpace(t[p + 2])}

-----------------------------------------------------------------------------
(* Properties of RAGPipeline and the interactive loop, checked under SpecQuery *)

\* documents[0], metadatas[0] and distances[0] are all there and equally long
WellFormed(r) ==
    /\ ~FieldRaises(r.documents)
    /\ ~FieldRaises(r.metadatas)
    /\ ~FieldRaises(r.distances)
    /\ Len(r.metadatas[1]) = Len(r.documents[1])
    /\ Len(r.distances[1]) = Len(r.documents[1])

\* C7: retrieve_context returns a list only for a well-formed index result; on
\* unequal lengths or missing entries it raises and never returns a shortened list.
RetrieveFailsOnMismatch == pc = "PromptBuilding" => WellFormed(results)

\* C8: the interactive loop ends only on the exit command, never because a
\* query failed.
LoopEndsOnlyOnExit == pc \in {"Exited", "Crashed"} => IsExitCommand(Strip(line))

\* sub occurs in s at position k
Occurs(sub, s, k) ==
    /\ k + Len(sub) - 1 <= Len(s)
    /\ SubSeq(s, k, k + Len(sub) - 1) = sub

\* the positions of the block headers in p
SourcePositions(p) == {k \in 1..Len(p) : p[k] = "[Source "}

\* the block the i-th chunk is to appear as: its header, then its text
ExpectedBlock(i, chunk) ==
    <<"[Source ", ToString(i), ": ">> \o chunk.metadata.title \o <<" (">>
        \o chunk.metadata.arxiv_id \o <<")]\n">> \o chunk.text

\* C9: the prompt built from query q and the retrieved chunks contains q and
\* exactly one block per chunk, in input order: the i-th block header in the
\* prompt is 'Source i: title (arxiv_id)' of the i-th chunk, followed by that
\* chunk's text; no chunk is dropped, reordered or merged with an equal one.
PromptFidelity ==
    pc = "Generating" =>
        /\ \E k \in 1..Len(prompt) : Occurs(query, prompt, k)
        /\ Cardinality(SourcePositions(prompt)) = Len(context_chunks)
        /\ \A k \in SourcePositions(prompt) :
              LET i == Cardinality({j \in SourcePositions(prompt) : j <= k})
              IN  /\ i <= Len(context_chunks)
                  /\ Occurs(ExpectedBlock(i, context_chunks[i]), prompt, k)

\* C9, witness: a prompt has been built from two identical retrieved chunks
PromptBuiltFromTwins ==
    /\ pc = "Generating"
    /\ Len(context_chunks) = 2
    /\ context_chunks[1] = context_chunks[2]

\* C10: every step of the loop is one of: Idle to Exited on an exit command
\* (trimmed, any letter case); Idle to Idle on an empty line; Idle to
\* Retrieving on any other line; then Retrieving to PromptBuilding to
\* Generating to Idle, in that order. No stage runs for an exit command or an
\* empty line.
LoopStateMachine ==
    /\ [](pc \in {"Retrieving", "PromptBuilding", "Generating"}
            => (Strip(line) # <<>> /\ ~IsExitCommand(Strip(line))))
    /\ [][\/ /\ pc = "Idle"
             /\ IsExitCommand(Strip(line'))
             /\ pc' = "Exited"
          \/ /\ pc = "Idle"
             /\ Strip(line') = <<>>
             /\ pc' = "Idle"
          \/ /\ pc = "Idle"
             /\ ~IsExitCommand(Strip(line'))
             /\ Strip(line') # <<>>
             /\ pc' = "Retrieving"
          \/ pc = "Retrieving" /\ pc' = "PromptBuilding"
          \/ pc = "PromptBuilding" /\ pc' = "Generating"
          \/ pc = "Generating" /\ pc' = "Idle"]_vars

====
